---- MODULE Spec2Model ----
(***************************************************************************)
(* Steady state of the OG-USA overlapping-generations model                *)
(* (Python/ogusa/SS.py): the household residual function                   *)
(* Euler_equation_solver, the damped outer iteration SS_solver, the macro  *)
(* residual function SS_fsolve_reform and the reform branch of             *)
(* run_steady_state.                                                       *)
(*                                                                         *)
(* Arithmetic.  Floating-point quantities are fixed-point integers:        *)
(* macro values and household decisions are integer multiples of a unit,   *)
(* the damping weight nu is a numerator over NuDen, and a distance is a    *)
(* number of 1/PctScale (0.1 percent).  Products are rounded down to the  *)
(* grid, as a float rounds to its own.  A NaN is the value NaN, which      *)
(* every comparison treats as numpy does (all comparisons with it are      *)
(* false).                                                                 *)
(*                                                                         *)
(* Collaborators that are not part of SS.py (household.py, firm.py,        *)
(* tax.py, scipy's fsolve) are opaque: what they return is drawn from a    *)
(* small set of outcomes, except utils.convex_combo, utils.pct_diff_func   *)
(* and household.get_cons, whose formulas the specification states.        *)
(***************************************************************************)
EXTENDS Integers, Sequences, FiniteSets, TLC

VARIABLES
    \* ---- one evaluation of Euler_equation_solver and a repeat of it
    eu_pc,          \* "idle" | "call" | "once" | "twice"
    eu_guesses,     \* the caller's 2S vector: S savings then S labor
    eu_hh,          \* what the household Euler functions return here
    eu_ret1,        \* list returned by the first call
    eu_ret2,        \* list returned by the second call
    eu_cons,        \* cons, the local of the last call
    eu_labor_used,  \* the labor vector handed to tax.total_taxes/get_cons
    \* ---- SS_solver
    pc,             \* "idle" | "fsolve" | "loop" | "done" | "IndexError"
    fsolve_flag,
    maxiter,        \* the local: 1 once fsolve_flag overrides it
    mindist_SS,
    nu_param,       \* nu of params
    nu,             \* the local nu, halved by the loop
    w, r, T_H, factor,
    bssmat, nssmat, \* [S,J] matrices, written in place by the inner solves
    dist,
    iteration,
    dist_vec,       \* np.zeros(maxiter as configured)
    new_r, new_w, new_T_H, new_factor,
    b_mat, n_mat, eul_errors,
    args_,          \* <<r, w, T_H, factor>> of args_, handed to the latest inner solves
    solutions,      \* the returned vector; << >> before the return
    run,            \* 1: first call of SS_solver, 2: the call on its output
    \* ---- run_steady_state, baseline = False
    mode,           \* "euler" | "direct" | "reform"
    factor_in,      \* factor read from SS_baseline_solutions.pkl
    nfev,           \* evaluations of SS_fsolve_reform made by fsolve
    fs_errors,      \* list returned by the last SS_fsolve_reform
    fs_log,         \* the evaluations made: guess, root finder outcome, list returned
    \* ---- the arrays handed to SS_solver with the guesses
    omega_SS,       \* population weights, S entries in units of 1/OmegaDen
    \* ---- run_steady_state, calibrate_model = True, and function_to_minimize
    cal_pc,         \* "idle" | "minimize" | "eval" | "final"
    chi_params,     \* the array run_steady_state passes as chi_params_init
    chi_base,       \* the weights run_steady_state was given
    chi_scalars,    \* chi_params_scalars of the latest evaluation
    chi_used,       \* the weights the latest evaluation solved with
    ss_init,        \* 'solutions' of Saved_moments/SS_init_solutions.pkl
    seed_read,      \* what the latest evaluation loaded from that file
    persisted,      \* the solution dumped to that file last
    cal_raw,        \* output before the penalties: error5 + error6
    cal_eul,        \* eul_error.max() of the latest evaluation
    cal_output,     \* output after the penalties
    Nfeval,
    value_all,      \* the history of objective values, one slot per index
    chi_params_all, \* the history of parameter vectors, one slot per index
    slot_evals,     \* per slot, the evaluations (counted from 1) that wrote it
    n_calls,        \* evaluations of function_to_minimize completed
    via_callback    \* the caller evaluates through callbackF

eu_vars == <<eu_pc, eu_guesses, eu_hh, eu_ret1, eu_ret2, eu_cons, eu_labor_used>>
ss_vars == <<pc, fsolve_flag, maxiter, mindist_SS, nu_param, nu, w, r, T_H,
             factor, bssmat, nssmat, dist, iteration, dist_vec, new_r, new_w,
             new_T_H, new_factor, b_mat, n_mat, eul_errors, args_, solutions,
             run>>
rf_vars == <<mode, factor_in, nfev, fs_errors, fs_log>>
in_vars == <<omega_SS>>
cal_vars == <<cal_pc, chi_params, chi_base, chi_scalars, chi_used, ss_init,
              seed_read, persisted, cal_raw, cal_eul, cal_output, Nfeval,
              value_all, chi_params_all, slot_evals, n_calls, via_callback>>
vars == <<eu_vars, ss_vars, rf_vars, in_vars, cal_vars>>

(***************************************************************************)
(* Dimensions and the bounds of the model.                                 *)
(***************************************************************************)
\* number of cohorts (params S)
S == 2
\* number of ability types (params J)
J == 2
\* largest configured maxiter
MaxIter == 13
\* largest configured maxiter of a run that is repeated on its own output
MaxIterRerun == 4
\* evaluations fsolve makes of SS_fsolve_reform before it returns
MaxFev == 3

Ages == 1..S
Types == 1..J

\* denominator of nu and grid of a distance
NuDen == 2 ^ 6
PctScale == 10 ^ 3

\* np.nan
NaN == -9999
\* numpy's inf, the result of x / 0.0 for x # 0
Inf == 2 ^ 30

IsNaN(x) == x = NaN
Abs(x) == IF x < 0 THEN -x ELSE x
\* a < b, a > b, a <= b on floats
Lt(a, b) == ~IsNaN(a) /\ ~IsNaN(b) /\ a < b
Gt(a, b) == ~IsNaN(a) /\ ~IsNaN(b) /\ a > b
Le(a, b) == ~IsNaN(a) /\ ~IsNaN(b) /\ a <= b

(***************************************************************************)
(* Euler_equation_solver(guesses, r, w, T_H, factor, params)               *)
(***************************************************************************)
\* the sentinel 1e14, above every residual the household functions return
Penalty == 100000
\* params ltilde, the time endowment
ltilde == 1

\* values of a savings entry: negative, zero, positive, NaN
SavingsValues == {-1, 0, 1, NaN}
\* values of a labor entry: negative, 0, ltilde, above ltilde, NaN
LaborValues == {-1, 0, ltilde, ltilde + 1, NaN}
\* interest rates the function is evaluated at
EulerRates == {0, 1}

b_guess(g) == [s \in Ages |-> g[s]]
n_guess(g) == [s \in Ages |-> g[S + s]]
b_s(g) == [s \in Ages |-> IF s = 1 THEN 0 ELSE g[s - 1]]
b_splus1(g) == b_guess(g)
b_splus2(g) == [s \in Ages |-> IF s = S THEN 0 ELSE g[s + 1]]

\* household.euler_savings_func: its value at age s, opaque; hh selects one
\* of the outcomes.  A residual is never the sentinel.
euler_savings_func(hh, s) == hh * s
\* household.euler_labor_leisure_func, likewise
euler_labor_leisure_func(hh, s) == 0 - (hh + s)
HouseholdOutcomes == {1, 2}

\* household.get_cons with no taxes, bequests or growth: the budget identity
\* cons = (1 + r) * b_s + w * e * n - b_splus1, with w = e = 1
get_cons(rate, bs, n, bsp1) ==
    IF IsNaN(bs) \/ IsNaN(n) \/ IsNaN(bsp1) THEN NaN
    ELSE (1 + rate) * bs + n - bsp1

\* the labor vector handed to tax.total_taxes and household.get_cons
ConsLabor(g) == n_guess(g)
cons_of(g, rate) ==
    [s \in Ages |-> get_cons(rate, b_s(g)[s], ConsLabor(g)[s], b_splus1(g)[s])]

mask1_pos(g) == [s \in Ages |-> Gt(n_guess(g)[s], 0)]
mask1(g) == [s \in Ages |-> Lt(n_guess(g)[s], 0)]
mask2_lt(g) == [s \in Ages |-> Lt(n_guess(g)[s], ltilde)]
mask2(g) == [s \in Ages |-> Gt(n_guess(g)[s], ltilde)]
mask3_lt(g) == [s \in Ages |-> Lt(b_guess(g)[s], 0)]
mask3(g) == [s \in Ages |-> Le(b_guess(g)[s], 0)]
mask4(g) == [s \in Ages |-> IsNaN(n_guess(g)[s])]
mask5(g) == [s \in Ages |-> IsNaN(b_guess(g)[s])]
mask6(g, rate) == [s \in Ages |-> Lt(cons_of(g, rate)[s], 0)]

error1(g, hh, rate) ==
    [s \in Ages |->
        IF mask3(g)[s] \/ mask5(g)[s] \/ mask6(g, rate)[s] THEN Penalty
        ELSE euler_savings_func(hh, s)]
error2(g, hh) ==
    [s \in Ages |->
        IF mask1(g)[s] \/ mask2(g)[s] \/ mask4(g)[s] THEN Penalty
        ELSE euler_labor_leisure_func(hh, s)]

\* list(error1.flatten()) + list(error2.flatten())
Euler_equation_solver(g, hh, rate) ==
    [i \in 1..(2 * S) |->
        IF i <= S THEN error1(g, hh, rate)[i] ELSE error2(g, hh)[i - S]]

\* The caller's vector after the call.  b_guess and n_guess are copies
\* (np.array of a slice) and only error1 and error2 are written.
GuessesWritten(g) ==
    [i \in 1..(2 * S) |->
        IF i <= S THEN (IF mask3(g)[i] THEN Penalty ELSE g[i])
        ELSE (IF mask1(g)[i - S] THEN Penalty ELSE g[i])]
GuessesAfterCall(g) == g

(***************************************************************************)
(* utils.convex_combo, utils.pct_diff_func and the float operations the    *)
(* loop of SS_solver applies to a distance.                                *)
(***************************************************************************)
\* one unit of a macro value is 1/ValUnit
ValUnit == 2 ^ 11

\* utils.convex_combo(var1, var2, nu) = nu * var1 + (1 - nu) * var2
convex_combo(var1, var2, weight) ==
    (weight * var1 + (NuDen - weight) * var2) \div NuDen

\* utils.pct_diff_func(simul, data) = abs((simul - data) / data)
pct_diff_func(simul, data) ==
    IF IsNaN(simul) \/ IsNaN(data) THEN NaN
    ELSE IF data = 0 THEN (IF simul = 0 THEN NaN ELSE Inf)
    ELSE (Abs(simul - data) * PctScale) \div Abs(data)

\* abs(a - b), on the grid of a distance
abs_diff(a, b) ==
    IF IsNaN(a) \/ IsNaN(b) THEN NaN
    ELSE (Abs(a - b) * PctScale) \div ValUnit

\* np.array([...]).max(): NaN if an entry is NaN
RECURSIVE array_max(_)
array_max(xs) ==
    IF Len(xs) = 1 THEN xs[1]
    ELSE LET m == array_max(Tail(xs))
         IN  IF IsNaN(xs[1]) \/ IsNaN(m) THEN NaN
             ELSE IF xs[1] >= m THEN xs[1] ELSE m

\* np.array(xs).sum()
RECURSIVE seq_sum(_)
seq_sum(xs) == IF xs = << >> THEN 0 ELSE Head(xs) + seq_sum(Tail(xs))

\* a - b on floats
fsub(a, b) ==
    IF IsNaN(a) \/ IsNaN(b) THEN NaN
    ELSE IF a = Inf /\ b = Inf THEN NaN
    ELSE IF a = Inf THEN Inf
    ELSE IF b = Inf THEN 0 - Inf
    ELSE a - b

(***************************************************************************)
(* The collaborators of SS_solver.  One outcome stands for what the inner  *)
(* root finder and the firm, household and tax aggregates return in one    *)
(* pass: ier is fsolve's flag (1: a root was found), b and n the root,     *)
(* fvec the residuals at the returned point, and r, w, T_H, factor the     *)
(* values the aggregates imply.                                            *)
(***************************************************************************)
OutcomeA ==
    [ier |-> 1, b |-> 50, n |-> 40, fvec |-> <<0, 0>>,
     r |-> ValUnit \div 2, w |-> ValUnit, T_H |-> 0, factor |-> 2 * ValUnit]
OutcomeB ==
    [ier |-> 1, b |-> 70, n |-> 30, fvec |-> <<0, 0>>,
     r |-> 4 * ValUnit, w |-> 2 * ValUnit, T_H |-> ValUnit \div 2,
     factor |-> 4 * ValUnit]
\* the root finder made no progress
OutcomeStall ==
    [ier |-> 5, b |-> 0, n |-> 0, fvec |-> <<-7, 3>>,
     r |-> ValUnit \div 2, w |-> ValUnit, T_H |-> 0, factor |-> 2 * ValUnit]
Outcomes == {OutcomeA, OutcomeB}
FinalOutcomes == {OutcomeA, OutcomeB, OutcomeStall}

\* guesses * .9
times09(g) == [i \in DOMAIN g |-> IF IsNaN(g[i]) THEN NaN ELSE (g[i] * 9) \div 10]

\* np.append(bssmat[:, j], nssmat[:, j])
column(bm, nm, j) ==
    [i \in 1..(2 * S) |-> IF i <= S THEN bm[i][j] ELSE nm[i - S][j]]

\* opt.fsolve(Euler_equation_solver, x0, args=args_, xtol=1e-13)[0]
fsolve(x0, e, j) ==
    IF e.ier = 1
    THEN [i \in 1..(2 * S) |-> IF i <= S THEN e.b + i + j ELSE e.n]
    ELSE x0

\* every type seeded by the columns as they were before the pass
inner_solves_old(bm, nm, e, j) ==
    [b |-> [s \in Ages |->
               [k \in Types |->
                   fsolve(times09(column(bm, nm, IF k = 1 THEN 1 ELSE k - 1)),
                          e, k)[s]]],
     n |-> [s \in Ages |->
               [k \in Types |->
                   fsolve(times09(column(bm, nm, IF k = 1 THEN 1 ELSE k - 1)),
                          e, k)[S + s]]]]

\* the for-loop of lines 349-364: type j is seeded by column j-1 as it is
\* now (type 1 by its own column) and its solution is stored in column j
RECURSIVE inner_solves(_, _, _, _)
inner_solves(bm, nm, e, j) ==
    IF j > J THEN [b |-> bm, n |-> nm]
    ELSE LET src == IF j = 1 THEN j ELSE j - 1
             sol == fsolve(times09(column(bm, nm, src)), e, j)
         IN  inner_solves([s \in Ages |-> [bm[s] EXCEPT ![j] = sol[s]]],
                          [s \in Ages |-> [nm[s] EXCEPT ![j] = sol[S + s]]],
                          e, j + 1)

\* the for-loop of lines 423-432: type j is seeded by its own column
final_solves(bm, nm, e) ==
    [b |-> [s \in Ages |->
               [j \in Types |-> fsolve(times09(column(bm, nm, j)), e, j)[s]]],
     n |-> [s \in Ages |->
               [j \in Types |-> fsolve(times09(column(bm, nm, j)), e, j)[S + s]]]]

\* b_mat.flatten(): row by row
flatten(m) == [i \in 1..(S * J) |-> m[((i - 1) \div J) + 1][((i - 1) % J) + 1]]

\* the macro values appended in the order of guesses: w, r, T_H, factor
solution_vector_guess_order(bm, nm, wv, rv, fv, tv) ==
    [i \in 1..(S * J) |-> bm[((i - 1) \div J) + 1][((i - 1) % J) + 1]]
    \o [i \in 1..(S * J) |-> nm[((i - 1) \div J) + 1][((i - 1) % J) + 1]]
    \o <<wv, rv, tv, fv>>
\* np.append(np.append(b_mat.flatten(), n_mat.flatten()), [w, r, factor, T_H])
solution_vector(bm, nm, wv, rv, fv, tv) ==
    flatten(bm) \o flatten(nm) \o <<wv, rv, fv, tv>>

zeros(n) == [i \in 1..n |-> 0]
zeros_mat == [s \in Ages |-> [j \in Types |-> 0]]
\* np.ones((S, J)) * 0.05 and np.ones((S, J)) * .4 * ltilde
b_guess_init == [s \in Ages |-> [j \in Types |-> 5]]
n_guess_init == [s \in Ages |-> [j \in Types |-> 40 * ltilde]]

(***************************************************************************)
(* SS_solver                                                               *)
(***************************************************************************)
\* dist = 10
DistInit == 10 * PctScale
\* the iterations exempt from the damping rule: "if iteration > 10"
Warmup == 10

\* values of the inputs
MaxIters == 0..MaxIter
MinDists == {0, PctScale \div 10}
NuValues == {NuDen \div 2}
MacroGuesses ==
    { [w |-> ValUnit, r |-> ValUnit \div 2, T_H |-> 0, factor |-> 2 * ValUnit],
      [w |-> 3 * (ValUnit \div 2), r |-> 3 * ValUnit, T_H |-> ValUnit \div 2,
       factor |-> 3 * ValUnit] }

\* while (dist > mindist_SS) and (iteration < maxiter)
LoopCond == Gt(dist, mindist_SS) /\ iteration < maxiter

\* the percent difference for every component, whatever T_H
DistanceAllPct(nr, rv, nw, wv, nt, tv, nf, fv) ==
    array_max(<<pct_diff_func(nr, rv), pct_diff_func(nw, wv),
                pct_diff_func(nt, tv), pct_diff_func(nf, fv)>>)
\* lines 395-406
Distance(nr, rv, nw, wv, nt, tv, nf, fv) ==
    IF tv # 0
    THEN array_max(<<pct_diff_func(nr, rv), pct_diff_func(nw, wv),
                     pct_diff_func(nt, tv), pct_diff_func(nf, fv)>>)
    ELSE array_max(<<pct_diff_func(nr, rv), pct_diff_func(nw, wv),
                     abs_diff(nt, tv), pct_diff_func(nf, fv)>>)

\* lines 410-412: nu after the iteration that wrote dv[it + 1]
NuAfterGe(weight, dv, it) ==
    IF it >= Warmup /\ Le(dv[it], dv[it + 1]) THEN weight \div 2 ELSE weight
NuAfterDouble(weight, dv, it) ==
    IF it > Warmup /\ Gt(fsub(dv[it + 1], dv[it]), 0) THEN weight * 2 ELSE weight
NuAfterQuarter(weight, dv, it) ==
    IF it > Warmup /\ Gt(fsub(dv[it + 1], dv[it]), 0) THEN weight \div 4 ELSE weight
NuAfter(weight, dv, it) ==
    IF it > Warmup /\ Gt(fsub(dv[it + 1], dv[it]), 0) THEN weight \div 2 ELSE weight

\* lines 323-343: the state on entry of the loop
SSEnter(flag, cfg, tol, weight, g, bm, nm) ==
    /\ fsolve_flag' = flag
    /\ maxiter' = IF flag THEN 1 ELSE cfg
    /\ dist_vec' = zeros(cfg)
    /\ mindist_SS' = tol
    /\ nu_param' = weight
    /\ nu' = weight
    /\ w' = g.w /\ r' = g.r /\ T_H' = g.T_H /\ factor' = g.factor
    /\ bssmat' = bm /\ nssmat' = nm
    /\ dist' = DistInit
    /\ iteration' = 0
    /\ pc' = "loop"

\* one pass of the while loop, lines 346-415, the collaborators returning
\* one of outs
IterateWith(outs) ==
    /\ pc = "loop"
    /\ LoopCond
    /\ \E e \in outs :
         LET bn == inner_solves(bssmat, nssmat, e, 1)
             r1 == convex_combo(e.r, r, nu)
             w1 == convex_combo(e.w, w, nu)
             f1 == convex_combo(e.factor, factor, nu)
             t1 == convex_combo(e.T_H, T_H, nu)
             d  == Distance(e.r, r1, e.w, w1, e.T_H, t1, e.factor, f1)
             dv == [dist_vec EXCEPT ![iteration + 1] = d]
         IN  /\ args_' = <<r, w, T_H, factor>>
             /\ bssmat' = bn.b
             /\ nssmat' = bn.n
             /\ new_r' = e.r /\ new_w' = e.w
             /\ new_factor' = e.factor /\ new_T_H' = e.T_H
             /\ r' = r1 /\ w' = w1 /\ factor' = f1 /\ T_H' = t1
             /\ dist' = d
             /\ IF iteration + 1 > Len(dist_vec)
                THEN \* dist_vec[iteration] = dist raises IndexError
                     /\ pc' = "IndexError"
                     /\ UNCHANGED <<dist_vec, nu, iteration>>
                ELSE /\ pc' = "loop"
                     /\ dist_vec' = dv
                     /\ nu' = NuAfter(nu, dv, iteration)
                     /\ iteration' = iteration + 1
    /\ UNCHANGED <<fsolve_flag, maxiter, mindist_SS, nu_param, b_mat, n_mat,
                   eul_errors, solutions, run>>
    /\ UNCHANGED <<eu_vars, rf_vars, in_vars, cal_vars>>

\* a pass in which every inner solve finds a root
Iterate == IterateWith(Outcomes)
\* a pass in which the inner solves may also stop without a root
IterateAny == IterateWith(FinalOutcomes)

\* eul_errors[j] = np.array(infodict['fvec']).max()
fvec_max(e) == array_max(e.fvec)

\* the loop is left: lines 417-437, the final solve and the return
Finish ==
    /\ pc = "loop"
    /\ ~LoopCond
    /\ \E e \in FinalOutcomes :
         LET bn == final_solves(bssmat, nssmat, e)
         IN  /\ args_' = <<r, w, T_H, factor>>
             /\ b_mat' = bn.b
             /\ n_mat' = bn.n
             /\ eul_errors' = [j \in Types |-> fvec_max(e)]
             /\ solutions' = solution_vector(bn.b, bn.n, w, r, factor, T_H)
    /\ pc' = "done"
    /\ UNCHANGED <<fsolve_flag, maxiter, mindist_SS, nu_param, nu, w, r, T_H,
                   factor, bssmat, nssmat, dist, iteration, dist_vec, new_r,
                   new_w, new_T_H, new_factor, run>>
    /\ UNCHANGED <<eu_vars, rf_vars, in_vars, cal_vars>>

\* the loop was left with the distance within the tolerance
Converged == iteration > 0 /\ Le(dist, mindist_SS)

\* SS_solver called again, by a caller that unpacks the vector it returned
\* (b = solutions[:S*J], n = solutions[S*J:2*S*J], then w, r, factor, T_H)
\* and passes the same params and iterative_params
Rerun ==
    /\ pc = "done"
    /\ run = 1
    /\ Converged
    /\ SSEnter(fsolve_flag, Len(dist_vec), mindist_SS, nu_param,
               [w |-> solutions[2 * S * J + 1], r |-> solutions[2 * S * J + 2],
                factor |-> solutions[2 * S * J + 3],
                T_H |-> solutions[2 * S * J + 4]],
               b_mat, n_mat)
    /\ run' = 2
    /\ UNCHANGED <<new_r, new_w, new_T_H, new_factor, b_mat, n_mat, eul_errors,
                   args_, solutions>>
    /\ UNCHANGED <<eu_vars, rf_vars, in_vars, cal_vars>>

(***************************************************************************)
(* run_steady_state with baseline = False, and SS_fsolve_reform            *)
(***************************************************************************)
\* the penalty 1e9 of SS_fsolve_reform
MacroPenalty == 100000000

\* the points [w, r, T_H] at which the root finder evaluates the residuals
ReformGuesses ==
    { [w |-> ValUnit, r |-> ValUnit \div 2, T_H |-> 0],
      [w |-> 0, r |-> ValUnit, T_H |-> ValUnit \div 2],
      [w |-> ValUnit, r |-> 0 - (ValUnit \div 2), T_H |-> ValUnit \div 2] }

\* lines 644-659
reform_errors(x, e) ==
    << (e.w - x.w) + (IF x.r <= 0 THEN MacroPenalty ELSE 0),
       (e.r - x.r) + (IF x.w <= 0 THEN MacroPenalty ELSE 0),
       e.T_H - x.T_H >>

\* one evaluation of SS_fsolve_reform by opt.fsolve (line 871); the first
\* is at the guesses read from the baseline solution
SS_fsolve_reform ==
    /\ pc = "fsolve"
    /\ nfev < MaxFev
    /\ \E x \in (IF nfev = 0 THEN {[w |-> w, r |-> r, T_H |-> T_H]}
                 ELSE ReformGuesses), e \in Outcomes :
         LET bn == inner_solves(bssmat, nssmat, e, 1)
         IN  /\ w' = x.w /\ r' = x.r /\ T_H' = x.T_H
             /\ args_' = <<x.r, x.w, x.T_H, factor_in>>
             /\ bssmat' = bn.b
             /\ nssmat' = bn.n
             /\ new_r' = e.r /\ new_w' = e.w
             /\ new_factor' = e.factor /\ new_T_H' = e.T_H
             /\ fs_errors' = reform_errors(x, e)
    /\ nfev' = nfev + 1
    /\ UNCHANGED <<pc, fsolve_flag, maxiter, mindist_SS, nu_param, nu, factor,
                   dist, iteration, dist_vec, b_mat, n_mat, eul_errors,
                   solutions, run>>
    /\ UNCHANGED <<eu_vars, mode, factor_in, fs_log, in_vars, cal_vars>>

\* lines 872-875: fsolve returns the point it evaluated last and SS_solver
\* is called on it with the baseline factor and fsolve_flag = True
ReformSolved ==
    /\ pc = "fsolve"
    /\ nfev > 0
    /\ SSEnter(TRUE, maxiter, mindist_SS, nu_param,
               [w |-> w, r |-> r, T_H |-> T_H, factor |-> factor_in],
               b_guess_init, n_guess_init)
    /\ UNCHANGED <<new_r, new_w, new_T_H, new_factor, b_mat, n_mat, eul_errors,
                   args_, solutions, run>>
    /\ UNCHANGED <<eu_vars, rf_vars, in_vars, cal_vars>>

(***************************************************************************)
(* run_steady_state with calibrate_model = True, and function_to_minimize  *)
(***************************************************************************)
\* evaluations of function_to_minimize the minimizer makes
MaxEval == 2
\* output += 1e14
CalPenalty == 100000
\* the tolerance 1e-4 on the largest Euler residual, in residual units
EulTol == 10
\* fsolve_no_converg = 1e6 when the largest residual is NaN
NaNResidual == 1000

\* chi_params has J + S entries, output has 2J + S
NChi == S + J
NOut == 2 * J + S
ones(n) == [i \in 1..n |-> 1]
\* the weights run_steady_state is given
BaseWeights == {[i \in 1..NChi |-> 3], [i \in 1..NChi |-> i]}
\* the multipliers the minimizer tries: inside its bounds, and outside
CandidateScalars ==
    { ones(NChi),
      [i \in 1..NChi |-> IF i = 1 THEN 2 ELSE 1],
      [i \in 1..NChi |-> IF i = 1 THEN -1 ELSE 1] }
\* a * b on arrays
times(a, b) == [i \in 1..NChi |-> a[i] * b[i]]
\* output + c
plus(a, c) == [i \in DOMAIN a |-> a[i] + c]

\* error5 + error6: what utils.check_wealth_calibration and the labor
\* moments return
RawDeviations == {[i \in 1..NOut |-> 0], [i \in 1..NOut |-> i]}
\* what Euler_equation_solver returns at the solved point
ResidualLists ==
    { [i \in 1..(2 * S) |-> IF i = 1 THEN -7 ELSE 3],
      [i \in 1..(2 * S) |-> IF i = 1 THEN -70 ELSE 3],
      [i \in 1..(2 * S) |-> IF i = 2 * S THEN NaN ELSE 0] }

\* np.abs(xs).max() and np.absolute(xs).max()
abs_list(xs) == [i \in DOMAIN xs |-> IF IsNaN(xs[i]) THEN NaN ELSE Abs(xs[i])]
abs_max(xs) == array_max(abs_list(xs))

\* lines 734-736
fsolve_no_converg_nan(eul) == eul
fsolve_no_converg(eul) == IF IsNaN(eul) THEN NaNResidual ELSE eul
\* line 737
NotConverged(eul) == Gt(fsolve_no_converg(eul), EulTol)
\* line 750: (chi_params_init <= 0.0).any()
ChiNonPositive(chi) == \E i \in DOMAIN chi : chi[i] <= 0

\* pickle.load(open(ss_init_path))['solutions'], lines 692-695; mem is the
\* vector SS_solver returned last
read_last_solution(file, mem) == mem
read_ss_init(file, mem) == file

\* solutions[:S*J].reshape(S, J) for offset 0, solutions[S*J:2*S*J] for S*J
reshape(v, offset) ==
    [s \in Ages |-> [j \in Types |-> v[offset + (s - 1) * J + j]]]
macro_of(v) ==
    [w |-> v[2 * S * J + 1], r |-> v[2 * S * J + 2],
     factor |-> v[2 * S * J + 3], T_H |-> v[2 * S * J + 4]]

\* the slots of value_all and chi_params_all
HistCap == 6
\* a[idx] = v, idx counted from zero
record(a, idx, v) == [a EXCEPT ![idx + 1] = v]
\* lines 754-757: value.sum(), the sum of the squares of the entries of
\* output, on a grid of 100 units of a deviation
criterion(out) == seq_sum([i \in DOMAIN out |-> (out[i] \div 100) * (out[i] \div 100)])

\* lines 878-894: the solution of the first solve is stored as the warm
\* start and the minimizer is started on a vector of ones
CalibStart ==
    /\ cal_pc = "idle"
    /\ pc = "done"
    /\ chi_params # << >>
    /\ ss_init' = solutions
    /\ persisted' = solutions
    /\ Nfeval' = 1
    /\ value_all' = zeros(HistCap)
    /\ chi_params_all' = [i \in 1..HistCap |-> zeros(NChi)]
    /\ slot_evals' = [i \in 1..HistCap |-> {}]
    /\ chi_scalars' = ones(NChi)
    /\ cal_pc' = "minimize"
    /\ UNCHANGED <<chi_params, chi_base, chi_used, seed_read, cal_raw,
                   cal_eul, cal_output, n_calls, via_callback>>
    /\ UNCHANGED <<eu_vars, ss_vars, rf_vars, in_vars>>

\* function_to_minimize, lines 683-707: the weights are scaled, the warm
\* start is loaded, SS_fsolve is run from it (here it returns the point it
\* was started at) and SS_solver is entered with fsolve_flag = True
EvalStart ==
    /\ cal_pc = "minimize"
    /\ pc = "done"
    /\ Nfeval <= MaxEval
    /\ \E x \in CandidateScalars :
         /\ chi_scalars' = x
         /\ chi_params' = times(chi_params, x)
         /\ chi_used' = times(chi_params, x)
    /\ LET sd == read_ss_init(ss_init, solutions)
       IN  /\ seed_read' = sd
           /\ SSEnter(TRUE, Len(dist_vec), mindist_SS, nu_param, macro_of(sd),
                      reshape(sd, 0), reshape(sd, S * J))
    /\ cal_pc' = "eval"
    /\ UNCHANGED <<chi_base, ss_init, persisted, cal_raw, cal_eul, cal_output,
                   Nfeval, value_all, chi_params_all, slot_evals, n_calls,
                   via_callback>>
    /\ UNCHANGED <<new_r, new_w, new_T_H, new_factor, b_mat, n_mat, eul_errors,
                   args_, solutions, run>>
    /\ UNCHANGED <<eu_vars, rf_vars, in_vars>>

\* function_to_minimize, lines 710-770, after SS_solver has returned
EvalEnd ==
    /\ cal_pc = "eval"
    /\ pc = "done"
    /\ \E raw \in RawDeviations, q \in ResidualLists :
         LET eul  == array_max([j \in Types |-> abs_max(q)])
             out1 == IF NotConverged(eul) THEN plus(raw, CalPenalty) ELSE raw
             out2 == IF ChiNonPositive(chi_params) THEN plus(out1, CalPenalty)
                     ELSE out1
         IN  /\ cal_raw' = raw
             /\ cal_eul' = eul
             /\ cal_output' = out2
             /\ IF NotConverged(eul)
                THEN UNCHANGED <<ss_init, persisted>>
                ELSE ss_init' = solutions /\ persisted' = solutions
             /\ IF Nfeval < HistCap
                THEN /\ value_all' = record(value_all, Nfeval, criterion(out2))
                     /\ chi_params_all' = record(chi_params_all, Nfeval, chi_params)
                     /\ slot_evals' = record(slot_evals, Nfeval,
                                             slot_evals[Nfeval + 1] \cup {n_calls + 1})
                     /\ Nfeval' = Nfeval + 1
                     /\ cal_pc' = IF via_callback THEN "callback" ELSE "minimize"
                ELSE \* value_all[Nfeval] = value.sum() raises IndexError
                     /\ cal_pc' = "IndexError"
                     /\ UNCHANGED <<value_all, chi_params_all, slot_evals, Nfeval>>
    /\ n_calls' = n_calls + 1
    /\ UNCHANGED <<chi_params, chi_base, chi_scalars, chi_used, seed_read,
                   via_callback>>
    /\ UNCHANGED <<eu_vars, ss_vars, rf_vars, in_vars>>

\* lines 904-925: the minimizer returns the multipliers it evaluated last,
\* the weights are scaled by them and the steady state is solved once more
\* from the warm start
MinimizeReturn ==
    /\ cal_pc = "minimize"
    /\ pc = "done"
    /\ Nfeval > 1
    /\ chi_params' = times(chi_params, chi_scalars)
    /\ LET sd == ss_init
       IN  SSEnter(TRUE, Len(dist_vec), mindist_SS, nu_param, macro_of(sd),
                   reshape(sd, 0), reshape(sd, S * J))
    /\ cal_pc' = "final"
    /\ UNCHANGED <<chi_base, chi_scalars, chi_used, ss_init, seed_read,
                   persisted, cal_raw, cal_eul, cal_output, Nfeval, value_all,
                   chi_params_all, slot_evals, n_calls, via_callback>>
    /\ UNCHANGED <<new_r, new_w, new_T_H, new_factor, b_mat, n_mat, eul_errors,
                   args_, solutions, run>>
    /\ UNCHANGED <<eu_vars, rf_vars, in_vars>>

\* callbackF, lines 782-788, once its call of function_to_minimize has
\* returned: the value returned and chi, the multipliers, are written at
\* index Nfeval and Nfeval is incremented
callbackF ==
    /\ cal_pc = "callback"
    /\ IF Nfeval < HistCap
       THEN /\ value_all' = record(value_all, Nfeval, criterion(cal_output))
            /\ chi_params_all' = record(chi_params_all, Nfeval, chi_scalars)
            /\ slot_evals' = record(slot_evals, Nfeval,
                                    slot_evals[Nfeval + 1] \cup {n_calls})
            /\ Nfeval' = Nfeval + 1
            /\ cal_pc' = "minimize"
       ELSE /\ cal_pc' = "IndexError"
            /\ UNCHANGED <<value_all, chi_params_all, slot_evals, Nfeval>>
    /\ UNCHANGED <<chi_params, chi_base, chi_scalars, chi_used, ss_init,
                   seed_read, persisted, cal_raw, cal_eul, cal_output, n_calls,
                   via_callback>>
    /\ UNCHANGED <<eu_vars, ss_vars, rf_vars, in_vars>>

(***************************************************************************)
(* Initial states and specifications                                       *)
(***************************************************************************)
EulerIdle ==
    /\ eu_pc = "idle"
    /\ eu_guesses = << >>
    /\ eu_hh = 0
    /\ eu_ret1 = << >>
    /\ eu_ret2 = << >>
    /\ eu_cons = << >>
    /\ eu_labor_used = << >>

ReformIdle ==
    /\ mode = "direct"
    /\ factor_in = 0
    /\ nfev = 0
    /\ fs_errors = << >>
    /\ fs_log = << >>

\* population weights that sum to one: omega_SS of the demographics
OmegaDen == 2 ^ 3
omega_uniform == [s \in Ages |-> IF s = 1 THEN OmegaDen - (S - 1) ELSE 1]
InputsValid == omega_SS = omega_uniform
\* weights of the right length that do not sum to one
omega_short == [s \in Ages |-> 1]
OmegaValues == {omega_uniform, omega_short}
Normalized(om) == Len(om) = S /\ seq_sum(om) = OmegaDen

\* no calibration: calibrate_model = False
\* Nfeval, value_all and chi_params_all before lines 880-882
HistoryUnbound ==
    /\ value_all = << >> /\ chi_params_all = << >>
    /\ slot_evals = << >> /\ n_calls = 0

CalibIdle ==
    /\ cal_pc = "idle"
    /\ chi_params = << >> /\ chi_base = << >>
    /\ chi_scalars = << >> /\ chi_used = << >>
    /\ ss_init = << >> /\ seed_read = << >> /\ persisted = << >>
    /\ cal_raw = << >> /\ cal_eul = 0 /\ cal_output = << >>
    /\ Nfeval = 0
    /\ HistoryUnbound
    /\ via_callback = FALSE

\* the locals of SS_solver that are not bound before the loop
SSUnbound ==
    /\ new_r = 0 /\ new_w = 0 /\ new_T_H = 0 /\ new_factor = 0
    /\ b_mat = zeros_mat
    /\ n_mat = zeros_mat
    /\ eul_errors = [j \in Types |-> 1]
    /\ args_ = << >>
    /\ solutions = << >>
    /\ run = 1

\* SS_solver entered (lines 323-343) with inputs from the given sets
SSInit(flags, cfgs) ==
    /\ fsolve_flag \in flags
    /\ \E cfg \in cfgs :
         /\ maxiter = (IF fsolve_flag THEN 1 ELSE cfg)
         /\ dist_vec = zeros(cfg)
    /\ mindist_SS \in MinDists
    /\ nu_param \in NuValues
    /\ nu = nu_param
    /\ \E g \in MacroGuesses :
         w = g.w /\ r = g.r /\ T_H = g.T_H /\ factor = g.factor
    /\ bssmat = b_guess_init
    /\ nssmat = n_guess_init
    /\ dist = DistInit
    /\ iteration = 0
    /\ pc = "loop"
    /\ SSUnbound

(***************************************************************************)
(* SS_fsolve_reform with aggregates that are functions of the decisions.   *)
(* household.get_K, firm.get_L, firm.get_r, firm.get_w and                 *)
(* tax.get_lump_sum are deterministic functions of bssmat and nssmat: r    *)
(* and w depend on the decisions through the ratio of capital to labor,    *)
(* the lump sum transfer through the level of income.                      *)
(***************************************************************************)
get_K(bm) == seq_sum(flatten(bm))
get_L(nm) == seq_sum(flatten(nm))
get_r(K, L) == IF K = 0 THEN Inf ELSE (L * ValUnit) \div (16 * K)
get_w(K, L) == IF L = 0 THEN Inf ELSE (K * 8 * ValUnit) \div L
get_lump_sum(K, L) == ((K + L) * ValUnit) \div 128
mean_income_data == 400
get_factor(K, L) == IF K + L = 0 THEN Inf ELSE (mean_income_data * ValUnit) \div (K + L)

\* lines 620-642: new_w, new_r, new_T_H, new_factor from the matrices the
\* inner solves have just written
aggregates(bm, nm) ==
    [w |-> get_w(get_K(bm), get_L(nm)), r |-> get_r(get_K(bm), get_L(nm)),
     T_H |-> get_lump_sum(get_K(bm), get_L(nm)),
     factor |-> get_factor(get_K(bm), get_L(nm))]

\* one evaluation of SS_fsolve_reform by opt.fsolve at the point x: lines
\* 590-659.  bssmat and nssmat are b_guess_init and n_guess_init, the arrays
\* of the args tuple, which every evaluation shares
SS_fsolve_reform_eval ==
    /\ pc = "fsolve"
    /\ nfev < MaxFev
    /\ \E x \in ReformGuesses, e \in FinalOutcomes :
         LET bn  == inner_solves(bssmat, nssmat, e, 1)
             agg == aggregates(bn.b, bn.n)
         IN  /\ w' = x.w /\ r' = x.r /\ T_H' = x.T_H
             /\ args_' = <<x.r, x.w, x.T_H, factor_in>>
             /\ bssmat' = bn.b
             /\ nssmat' = bn.n
             /\ new_r' = agg.r /\ new_w' = agg.w
             /\ new_factor' = agg.factor /\ new_T_H' = agg.T_H
             /\ fs_errors' = reform_errors(x, agg)
             /\ fs_log' = Append(fs_log, [x |-> x, e |-> e,
                                          errors |-> reform_errors(x, agg)])
    /\ nfev' = nfev + 1
    /\ UNCHANGED <<pc, fsolve_flag, maxiter, mindist_SS, nu_param, nu, factor,
                   dist, iteration, dist_vec, b_mat, n_mat, eul_errors,
                   solutions, run>>
    /\ UNCHANGED <<eu_vars, mode, factor_in, in_vars, cal_vars>>

\* SS_solver called once
Init ==
    SSInit(BOOLEAN, MaxIters) /\ EulerIdle /\ ReformIdle /\ InputsValid /\ CalibIdle
Next == Iterate \/ Finish
Spec == Init /\ [][Next]_vars

\* SS_solver (damped iteration) called, and called again on what it returned
InitIdem ==
    /\ SSInit({FALSE}, 1..MaxIterRerun) /\ EulerIdle /\ ReformIdle
    /\ InputsValid /\ CalibIdle
NextIdem == Iterate \/ Finish \/ Rerun
SpecIdem == InitIdem /\ [][NextIdem]_vars

\* SS_solver called with population weights that may not sum to one
InitInputs ==
    /\ SSInit(BOOLEAN, 1..MaxIterRerun) /\ EulerIdle /\ ReformIdle
    /\ omega_SS \in OmegaValues
    /\ CalibIdle
NextInputs == Iterate \/ Finish
SpecInputs == InitInputs /\ [][NextInputs]_vars

\* SS_solver (damped iteration) with inner solves that may stop without a root
MaxIterInner == 3
InitInner ==
    /\ SSInit({FALSE}, 1..MaxIterInner) /\ EulerIdle /\ ReformIdle
    /\ InputsValid /\ CalibIdle
NextInner == IterateAny \/ Finish
SpecInner == InitInner /\ [][NextInner]_vars

\* run_steady_state(baseline=True, calibrate_model=True) from the first call
\* of SS_solver on
CalibEntry ==
    /\ SSInit({TRUE}, {MaxIterRerun}) /\ EulerIdle /\ ReformIdle
    /\ mindist_SS = 0
    /\ w = ValUnit
    /\ InputsValid
    /\ cal_pc = "idle"
    /\ chi_params \in BaseWeights
    /\ chi_base = chi_params
    /\ chi_scalars = << >> /\ chi_used = << >>
    /\ ss_init = << >> /\ seed_read = << >> /\ persisted = << >>
    /\ cal_raw = << >> /\ cal_eul = 0 /\ cal_output = << >>
    /\ Nfeval = 0
    /\ HistoryUnbound
\* function_to_minimize is handed to the minimizer itself (lines 904-908)
InitCalib == CalibEntry /\ via_callback = FALSE
NextCalib ==
    Iterate \/ Finish \/ CalibStart \/ EvalStart \/ EvalEnd \/ MinimizeReturn
SpecCalib == InitCalib /\ [][NextCalib]_vars

\* the same run with a caller that evaluates either through
\* function_to_minimize or through callbackF
InitHistory == CalibEntry /\ via_callback \in BOOLEAN
NextHistory == NextCalib \/ callbackF
SpecHistory == InitHistory /\ [][NextHistory]_vars

\* run_steady_state(baseline=False) up to the return of SS_solver
InitReform ==
    /\ mode = "reform"
    /\ \E g \in MacroGuesses :
         /\ w = g.w /\ r = g.r /\ T_H = g.T_H
         /\ factor_in = g.factor
         /\ factor = g.factor
    /\ nfev = 0
    /\ fs_errors = << >>
    /\ fs_log = << >>
    /\ pc = "fsolve"
    /\ fsolve_flag = TRUE
    /\ maxiter \in MaxIters
    /\ dist_vec = << >>
    /\ mindist_SS \in MinDists
    /\ nu_param \in NuValues
    /\ nu = nu_param
    /\ bssmat = b_guess_init
    /\ nssmat = n_guess_init
    /\ dist = DistInit
    /\ iteration = 0
    /\ SSUnbound
    /\ EulerIdle
    /\ InputsValid /\ CalibIdle
NextReform == SS_fsolve_reform \/ ReformSolved \/ Iterate \/ Finish
SpecReform == InitReform /\ [][NextReform]_vars

\* opt.fsolve evaluating SS_fsolve_reform (line 871)
NextResidual == SS_fsolve_reform_eval
SpecResidual == InitReform /\ [][NextResidual]_vars

\* Euler_equation_solver called twice on the same vector
InitEuler ==
    /\ eu_pc = "call"
    /\ eu_guesses \in
         {g \in [1..(2 * S) -> SavingsValues \cup LaborValues] :
            /\ \A i \in 1..S : g[i] \in SavingsValues
            /\ \A i \in (S + 1)..(2 * S) : g[i] \in LaborValues}
    /\ eu_hh \in HouseholdOutcomes
    /\ eu_ret1 = << >>
    /\ eu_ret2 = << >>
    /\ eu_cons = << >>
    /\ eu_labor_used = << >>
    /\ mode = "euler"
    /\ factor_in = 0 /\ nfev = 0 /\ fs_errors = << >> /\ fs_log = << >>
    /\ pc = "idle"
    /\ fsolve_flag = FALSE
    /\ maxiter = 0
    /\ dist_vec = << >>
    /\ mindist_SS = 0
    /\ nu_param = 0 /\ nu = 0
    /\ w = 1 /\ r \in EulerRates /\ T_H = 0 /\ factor = 1
    /\ bssmat = zeros_mat /\ nssmat = zeros_mat
    /\ dist = DistInit
    /\ iteration = 0
    /\ SSUnbound
    /\ InputsValid /\ CalibIdle

EulerCall ==
    /\ eu_pc \in {"call", "once"}
    /\ IF eu_pc = "call"
       THEN /\ eu_ret1' = Euler_equation_solver(eu_guesses, eu_hh, r)
            /\ eu_pc' = "once"
            /\ UNCHANGED eu_ret2
       ELSE /\ eu_ret2' = Euler_equation_solver(eu_guesses, eu_hh, r)
            /\ eu_pc' = "twice"
            /\ UNCHANGED eu_ret1
    /\ eu_cons' = cons_of(eu_guesses, r)
    /\ eu_labor_used' = ConsLabor(eu_guesses)
    /\ eu_guesses' = GuessesAfterCall(eu_guesses)
    /\ UNCHANGED <<eu_hh, ss_vars, rf_vars, in_vars, cal_vars>>
NextEuler == EulerCall
SpecEuler == InitEuler /\ [][NextEuler]_vars

(***************************************************************************)
(* Properties                                                              *)
(***************************************************************************)
\* position k (1..4) of [w, r, factor, T_H] in the returned vector
macro_at(sol, k) == sol[2 * S * J + k]
\* what the returned vector holds after the decisions and the macro values
diagnostics(sol) == SubSeq(sol, 2 * S * J + 5, Len(sol))

\* C1: in a reform run the scaling factor read from the baseline solution is
\* never changed: it equals the factor passed in after every evaluation of
\* SS_fsolve_reform and in the vector the closing SS_solver call returns.
C1_FactorUnchanged ==
    mode = "reform" =>
        /\ pc = "fsolve" => factor = factor_in
        /\ pc = "done" => macro_at(solutions, 3) = factor_in

\* C2, with "below" read as "not above": when the loop stops with the
\* distance within the tolerance, each of r, w, T_H and factor newly implied
\* in the last iteration differs from the value held BEFORE that iteration's
\* update by at most mindist_SS (in percent; absolutely for a transfer that
\* is zero).
C2_WithinToleranceOfPrevious ==
    [][(/\ pc = "loop" /\ pc' = "loop"
        /\ iteration' = iteration + 1
        /\ Le(dist', mindist_SS))
       => /\ Le(pct_diff_func(new_r', r), mindist_SS)
          /\ Le(pct_diff_func(new_w', w), mindist_SS)
          /\ Le(pct_diff_func(new_factor', factor), mindist_SS)
          /\ IF T_H # 0 THEN Le(pct_diff_func(new_T_H', T_H), mindist_SS)
             ELSE Le(abs_diff(new_T_H', T_H), mindist_SS)]_vars

\* C3: a result returned after the loop ran into the iteration cap, with the
\* distance still above the tolerance, carries, in what is returned, an
\* indication that it did not converge.
C3_NonConvergenceFlagged ==
    (pc = "done" /\ iteration >= 1 /\ Gt(dist, mindist_SS))
        => diagnostics(solutions) # << >>

\* the penalty conditions of the savings and of the labor residual of age s,
\* on the vector that was passed and the consumption computed from it
SavingsInfeasible(s) ==
    \/ IsNaN(eu_guesses[s])
    \/ eu_guesses[s] <= 0
    \/ (~IsNaN(eu_cons[s]) /\ eu_cons[s] < 0)
LaborInfeasible(s) ==
    \/ IsNaN(eu_guesses[S + s])
    \/ eu_guesses[S + s] < 0
    \/ eu_guesses[S + s] > ltilde

\* C4: a negative labor entry n[s] makes the residual at index S+s the
\* sentinel, and every entry whose own index meets no penalty condition keeps
\* the value the household Euler functions computed.
C4_NegativeLaborPenalized ==
    eu_pc \in {"once", "twice"} =>
        \A s \in Ages :
            /\ (~IsNaN(eu_guesses[S + s]) /\ eu_guesses[S + s] < 0)
                => eu_ret1[S + s] = Penalty
            /\ ~SavingsInfeasible(s)
                => eu_ret1[s] = euler_savings_func(eu_hh, s)
            /\ ~LaborInfeasible(s)
                => eu_ret1[S + s] = euler_labor_leisure_func(eu_hh, s)

\* C4 witness: a call with a negative labor entry at one age and a feasible
\* other age
C4_Witness ==
    /\ eu_pc = "once"
    /\ \E s, t \in Ages :
        /\ s # t
        /\ eu_guesses[S + s] = -1
        /\ ~SavingsInfeasible(t) /\ ~LaborInfeasible(t)

\* C5 as claimed: a labor entry above ltilde gets the sentinel as its
\* labor-leisure residual and that value is not used in the consumption
\* calculation of the same evaluation.
C5_OutOfRangeLaborNotUsed ==
    eu_pc \in {"once", "twice"} =>
        \A s \in Ages :
            (~IsNaN(eu_guesses[S + s]) /\ eu_guesses[S + s] > ltilde)
                => /\ eu_ret1[S + s] = Penalty
                   /\ eu_labor_used[s] # eu_guesses[S + s]

\* C5 amended: a labor entry above ltilde gets the sentinel as its
\* labor-leisure residual; the value is still handed unchanged to the tax
\* and consumption calculation of the same evaluation, whose result is used
\* only to penalize the savings residual of an age with negative consumption.
C5_OutOfRangeLaborPenalized ==
    eu_pc \in {"once", "twice"} =>
        \A s \in Ages :
            (~IsNaN(eu_guesses[S + s]) /\ eu_guesses[S + s] > ltilde)
                => /\ eu_ret1[S + s] = Penalty
                   /\ eu_labor_used[s] = eu_guesses[S + s]
                   /\ eu_cons[s] =
                        get_cons(r, b_s(eu_guesses)[s], eu_guesses[S + s],
                                 eu_guesses[s])
                   /\ (~IsNaN(eu_cons[s]) /\ eu_cons[s] < 0)
                        => eu_ret1[s] = Penalty

\* C5 witness: a call with labor above ltilde at an age whose savings are
\* positive
C5_Witness ==
    /\ eu_pc = "once"
    /\ \E s \in Ages : eu_guesses[S + s] = ltilde + 1 /\ eu_guesses[s] = 1

\* C6: the sentinel is at exactly these entries: the savings residual of age
\* s when b[s] is non-positive or NaN or consumption at s is negative, the
\* labor residual of age s when n[s] is negative, above ltilde or NaN; every
\* other entry is the computed value, so a violation at an age never leaves
\* both residuals of that age unpenalized.
C6_PenaltyExactlyAtViolations ==
    eu_pc \in {"once", "twice"} =>
        \A s \in Ages :
            /\ eu_ret1[s] = Penalty <=> SavingsInfeasible(s)
            /\ eu_ret1[S + s] = Penalty <=> LaborInfeasible(s)
            /\ (SavingsInfeasible(s) \/ LaborInfeasible(s))
                => (eu_ret1[s] = Penalty \/ eu_ret1[S + s] = Penalty)
            /\ eu_ret1[s] \in {Penalty, euler_savings_func(eu_hh, s)}
            /\ eu_ret1[S + s] \in {Penalty, euler_labor_leisure_func(eu_hh, s)}

\* C6 witness: a call with zero savings at one age and NaN labor at another
C6_Witness ==
    /\ eu_pc = "once"
    /\ \E s, t \in Ages :
        /\ eu_guesses[s] = 0 /\ eu_ret1[s] = Penalty
        /\ IsNaN(eu_guesses[S + t]) /\ eu_ret1[S + t] = Penalty

C9_RerunTakesOneIteration ==
    /\ (run = 2 /\ iteration >= 1) => (iteration = 1 /\ Le(dist, mindist_SS))
    /\ (run = 2 /\ pc = "done") => iteration = 1

\* C10: the loop makes at most maxiter iterations, makes none after the
\* distance is no longer above the tolerance, is left only when the distance
\* is not above the tolerance or the count has reached maxiter (never by an
\* exception raised in its body), and what is then returned are the decisions
\* and the current w, r, factor, T_H, also when the cap was reached.
C10_LoopBoundedAndResultReturned ==
    /\ pc # "IndexError"
    /\ iteration <= maxiter
    /\ \A k \in 1..(iteration - 1) : Gt(dist_vec[k], mindist_SS)
    /\ pc = "done" =>
        /\ (~Gt(dist, mindist_SS) \/ iteration = maxiter)
        /\ Len(solutions) = 2 * S * J + 4
        /\ macro_at(solutions, 1) = w
        /\ macro_at(solutions, 2) = r
        /\ macro_at(solutions, 3) = factor
        /\ macro_at(solutions, 4) = T_H
        /\ \A s \in Ages, j \in Types :
            /\ solutions[(s - 1) * J + j] = b_mat[s][j]
            /\ solutions[S * J + (s - 1) * J + j] = n_mat[s][j]
    /\ (pc = "loop" /\ (~Gt(dist, mindist_SS) \/ iteration >= maxiter))
        => (~ENABLED Iterate /\ ENABLED Finish)

\* C11: with population weights that do not sum to one SS_solver fails
\* before the first inner Euler solve: no pass of the loop is made, no inner
\* solve stores a column and nothing is returned.
C11_InvalidInputsRejected ==
    ~Normalized(omega_SS) =>
        /\ iteration = 0
        /\ bssmat = b_guess_init /\ nssmat = n_guess_init
        /\ pc # "done"

\* a step that ends an evaluation of function_to_minimize
EvalEndStep == cal_pc = "eval" /\ cal_pc' = "minimize"
\* a step that starts one
EvalStartStep == cal_pc = "minimize" /\ cal_pc' = "eval"

\* C12: when the largest absolute Euler residual of the solved equilibrium
\* is NaN or above 1e-4, every entry of the deviation vector is inflated by
\* 1e14 (once, or twice when the weights penalty applies too) and the
\* warm-start file is left as it was.
C12_NonConvergencePenalized ==
    [][(EvalEndStep /\ (IsNaN(cal_eul') \/ cal_eul' > EulTol))
       => /\ \A i \in 1..NOut :
                cal_output'[i] - cal_raw'[i] \in {CalPenalty, 2 * CalPenalty}
          /\ ss_init' = ss_init]_vars

\* C12 witness: an evaluation whose largest residual was NaN has ended, the
\* output is inflated and the file does not hold the solution it found
C12_Witness ==
    /\ cal_pc = "minimize" /\ Nfeval > 1
    /\ IsNaN(cal_eul)
    /\ cal_output[1] - cal_raw[1] = CalPenalty
    /\ ss_init # solutions

\* C13: apart from the non-convergence penalty, 1e14 is added to the
\* deviation vector if and only if some multiplier of chi_params_scalars is
\* non-positive, whatever the base weights.
C13_PenaltyIffMultiplierNonPositive ==
    [][EvalEndStep
       => LET noconv == IF IsNaN(cal_eul') \/ cal_eul' > EulTol
                        THEN CalPenalty ELSE 0
              bounds == IF \E i \in 1..NChi : chi_scalars[i] <= 0
                        THEN CalPenalty ELSE 0
          IN  \A i \in 1..NOut :
                cal_output'[i] = cal_raw'[i] + noconv + bounds]_vars

\* C14: an evaluation replaces the warm-start file with its solution exactly
\* when it is not penalized; a penalized one (non-convergence or non-positive
\* multiplier penalty) leaves the file as it was.
C14_CacheWrittenIffUnpenalized ==
    [][EvalEndStep
       => IF \E i \in 1..NOut : cal_output'[i] # cal_raw'[i]
          THEN ss_init' = ss_init
          ELSE ss_init' = solutions]_vars

\* C15: the warm start an evaluation reads is the solution persisted last:
\* by the latest earlier evaluation that persisted one, or by
\* run_steady_state before the minimizer started.
C15_SeedIsLatestPersisted ==
    [][EvalStartStep => seed_read' = persisted]_vars

\* C15 witness: the second evaluation has read its warm start after a first
\* evaluation that did not persist its solution
C15_Witness ==
    /\ cal_pc = "eval" /\ pc = "loop" /\ Nfeval = 2
    /\ IsNaN(cal_eul)
    /\ seed_read = persisted
    /\ seed_read # solutions

\* C16: the weights an evaluation solves with are base weights times its
\* multipliers, the array handed to every evaluation holds the base weights,
\* and the final weights are base weights times the returned multipliers.
C16_WeightsAreBaseTimesMultipliers ==
    /\ cal_pc = "eval" => chi_used = times(chi_base, chi_scalars)
    /\ cal_pc = "minimize" => chi_params = chi_base
    /\ cal_pc = "final" => chi_params = times(chi_base, chi_scalars)

\* the step of Finish: the final solves of lines 423-432 and the return
FinishStep == pc = "loop" /\ pc' = "done"

\* C17: when the loop of SS_solver is left, the final solve of each type j
\* returns without raising whatever the flag of the root finder, and
\* eul_errors[j] is the largest absolute value of the residuals at the point
\* it returned.  Stated of the runs that made at least one pass of the loop.
C17_EulErrorsAreMaxAbsolute ==
    [][FinishStep /\ iteration >= 1 =>
         \E e \in FinalOutcomes :
            /\ b_mat' = final_solves(bssmat, nssmat, e).b
            /\ n_mat' = final_solves(bssmat, nssmat, e).n
            /\ eul_errors' = [j \in Types |-> abs_max(e.fvec)]]_vars

\* the passes of the loop made so far that halved nu: pass it (counted from
\* zero) wrote dist_vec[it + 1]
Halvings ==
    Cardinality({it \in 0..(iteration - 1) :
                    it > Warmup /\ Gt(fsub(dist_vec[it + 1], dist_vec[it]), 0)})

\* C18: in every state of the loop of SS_solver nu is strictly positive, not
\* larger than the nu of params, and equal to the nu of params divided by
\* 2^k, k the number of halvings made so far.
C18_NuIsInitialOverPowerOfTwo ==
    pc \in {"loop", "done"} =>
        /\ nu > 0
        /\ nu <= nu_param
        /\ nu * (2 ^ Halvings) = nu_param

\* C18 witness: the loop after two halvings
C18_Witness ==
    /\ pc = "loop"
    /\ Halvings = 2
    /\ nu * 4 = nu_param

\* one pass of the loop that reached the damping rule
IterateStep == pc = "loop" /\ pc' = "loop" /\ iteration' = iteration + 1

\* C19 as stated: nu is unchanged during the first 10 iterations (indices
\* 0..9), and from the 11th on (index >= 10) it is halved whenever the
\* distance of the iteration is greater than or equal to the previous one.
C19_HalvedWhenNotDecreasingAfterTen ==
    [][IterateStep =>
         /\ iteration < Warmup => nu' = nu
         /\ (iteration >= Warmup
              /\ Le(dist_vec'[iteration], dist_vec'[iteration + 1]))
             => 2 * nu' = nu]_vars

\* C19 amended: nu is unchanged during the first 11 iterations (indices
\* 0..10), and from the 12th on it is halved exactly when the distance of
\* the iteration is strictly greater than the previous one, and unchanged
\* otherwise.
C19_HalvedIffIncreasedAfterEleven ==
    [][IterateStep =>
         IF iteration > Warmup
            /\ Gt(dist_vec'[iteration + 1], dist_vec'[iteration])
         THEN 2 * nu' = nu
         ELSE nu' = nu]_vars

\* C19 witness: twelve iterations made; the distance rose in the 12th, which
\* halved nu for the first time
C19_Witness ==
    /\ pc = "loop"
    /\ iteration = Warmup + 2
    /\ Gt(dist_vec[Warmup + 2], dist_vec[Warmup + 1])
    /\ 2 * nu = nu_param

\* C20: in each pass of the loop of SS_solver the inner solve runs once per
\* type, in the order of the types; type 1 is seeded by 0.9 times its own
\* column of bssmat and nssmat, and every later type j by 0.9 times the
\* solution this pass has just stored for type j - 1, not by what column
\* j - 1 held before the pass.
C20_SeededByPreviousTypeSolution ==
    [][IterateStep =>
         \E e \in FinalOutcomes :
            /\ column(bssmat', nssmat', 1)
                 = fsolve(times09(column(bssmat, nssmat, 1)), e, 1)
            /\ \A j \in Types \ {1} :
                 column(bssmat', nssmat', j)
                   = fsolve(times09(column(bssmat', nssmat', j - 1)), e, j)]_vars

\* C20 witness: one pass made in which no inner solve moved from its seed;
\* column 2 is 0.9 times the new column 1, which differs from 0.9 times the
\* column 1 the pass started from
C20_Witness ==
    /\ pc = "loop"
    /\ iteration = 1
    /\ column(bssmat, nssmat, 1)
         = times09(column(b_guess_init, n_guess_init, 1))
    /\ column(bssmat, nssmat, 2) = times09(column(bssmat, nssmat, 1))
    /\ column(bssmat, nssmat, 2)
         # times09(column(b_guess_init, n_guess_init, 1))

\* C21: the distance a pass of the loop computes is the largest of the four
\* components for r, w, T_H and factor; each is the percent difference
\* between the new value and the updated one, except that the component
\* for T_H is the absolute difference exactly when the updated T_H is zero,
\* and then the distance is a finite number: nothing was divided by the
\* zero T_H.
C21_DistanceIsMaxOfFourComponents ==
    [][IterateStep =>
         /\ dist' = array_max(<<pct_diff_func(new_r', r'),
                                pct_diff_func(new_w', w'),
                                IF T_H' = 0
                                THEN abs_diff(new_T_H', T_H')
                                ELSE pct_diff_func(new_T_H', T_H'),
                                pct_diff_func(new_factor', factor')>>)
         /\ T_H' = 0 => (~IsNaN(dist') /\ dist' < Inf)]_vars

\* C21 witness: a pass made that left T_H at zero, with a distance that is
\* a positive finite number
C21_Witness ==
    /\ pc = "loop"
    /\ iteration >= 1
    /\ T_H = 0
    /\ dist = dist_vec[iteration]
    /\ Gt(dist, 0) /\ dist < Inf

\* C22: SS_solver called with fsolve_flag True leaves its loop only for the
\* final solves, and has then made exactly one pass (one inner solve per
\* type and one damped update), whatever maxiter was configured and
\* whatever the distance.
C22_OnePassWhenFsolveFlag ==
    (fsolve_flag /\ pc # "loop") => (pc = "done" /\ iteration = 1)

\* C23: the vector SS_solver returns holds the decisions of the final
\* solves, made with exactly the w, r, factor and T_H that the same vector
\* carries, which are the values after the last damped update; its layout
\* is S*J savings, S*J labor, then w, r, factor, T_H, as run_steady_state
\* and function_to_minimize unpack it.
C23_DecisionsAtReturnedMacroValues ==
    pc = "done" =>
        /\ Len(solutions) = 2 * S * J + 4
        /\ reshape(solutions, 0) = b_mat
        /\ reshape(solutions, S * J) = n_mat
        /\ macro_of(solutions) = [w |-> w, r |-> r, factor |-> factor, T_H |-> T_H]
        /\ args_ = <<macro_of(solutions).r, macro_of(solutions).w,
                     macro_of(solutions).T_H, macro_of(solutions).factor>>

\* C23 witness: SS_solver returned after a damped update that changed the
\* macro values; T_H and factor differ, and so do the columns of the
\* decisions
C23_Witness ==
    /\ pc = "done"
    /\ iteration >= 1
    /\ macro_of(solutions).T_H # macro_of(solutions).factor
    /\ macro_of(solutions).w # macro_of(solutions).r
    /\ b_mat[1][1] # b_mat[1][2]
    /\ <<new_r, new_w>> # <<r, w>>

\* C24: two evaluations of SS_fsolve_reform at the same guess, with the same
\* arguments and the same behaviour of the inner root finder, return the
\* same list of residuals, although each evaluation writes its inner
\* solutions into b_guess_init and n_guess_init.
C24_ResidualsDependOnGuessOnly ==
    \A i \in DOMAIN fs_log : \A k \in DOMAIN fs_log :
        (fs_log[i].x = fs_log[k].x /\ fs_log[i].e = fs_log[k].e)
            => fs_log[i].errors = fs_log[k].errors

\* C25: every write dist_vec[iteration] = dist of SS_solver is at an index
\* inside the array allocated for dist_vec, for every configured maxiter
\* >= 0 and both values of fsolve_flag: no pass ends in an IndexError, and
\* the number of entries written never exceeds the length of the array.
C25_DistVecWritesInRange ==
    /\ pc # "IndexError"
    /\ pc \in {"loop", "done"} => iteration <= Len(dist_vec)

\* C26: in the list SS_fsolve_reform returns, the residual of the interest
\* rate (new_r - r) carries the penalty exactly when the guess of r is not
\* positive, the residual of the wage (new_w - w) exactly when the guess of
\* w is not positive, and the residual of the transfer is never penalized.
\* The list is [wage, interest rate, transfer].
C26_PenaltyOnResidualOfOffendingGuess ==
    (pc = "fsolve" /\ nfev > 0) =>
        /\ fs_errors[1] = (new_w - w) + (IF w <= 0 THEN MacroPenalty ELSE 0)
        /\ fs_errors[2] = (new_r - r) + (IF r <= 0 THEN MacroPenalty ELSE 0)
        /\ fs_errors[3] = new_T_H - T_H

\* C27: during a calibration run Nfeval grows by exactly one per evaluation
\* of the objective, every evaluation made has written exactly one slot of
\* the history, no slot was written by two evaluations, and no write was
\* at an index outside the history; whether the objective is evaluated
\* through function_to_minimize or through callbackF.
C27_OneHistorySlotPerEvaluation ==
    /\ cal_pc # "IndexError"
    /\ cal_pc = "minimize" =>
          /\ Nfeval = 1 + n_calls
          /\ Nfeval <= HistCap
          /\ \A k \in 1..n_calls :
                Cardinality({s \in 1..HistCap : k \in slot_evals[s]}) = 1
          /\ \A s \in 1..HistCap : Cardinality(slot_evals[s]) <= 1
====
